---------------------------- MODULE Spec2Model ----------------------------
(***************************************************************************)
(* MaterialExplorer (BaikalStandalone/Application/material_explorer.cpp):  *)
(* the constructor that collects the layers of a material, and the         *)
(* per-frame DrawExplorer panel with its function-level statics, over the  *)
(* retained state of the immediate-mode UI context (active item, mouse).   *)
(*                                                                         *)
(* Units: node positions are integers (RadeonRays::int2); the mouse delta  *)
(* and the scrolling offset are floats, kept here in half pixels.          *)
(***************************************************************************)
EXTENDS Integers, Sequences, FiniteSets, TLC

(* ------------------------------ bounds --------------------------------- *)

\* layer bitmasks handed to the constructor range over 0 .. 2^MaskBits - 1
MaskBits == 8
\* number of MaterialExplorer instances created in one behaviour
MaxInstances == 2
\* a node is dragged at most this far (pixels, per coordinate) from its layout position
MaxDrift == 1
\* the canvas is scrolled at most this far (half pixels, per coordinate)
MaxScroll == 3

(* ---------------------- UberV2Material::Layers ------------------------- *)

kEmissionLayer == 1
kTransparencyLayer == 2
kCoatingLayer == 4
kReflectionLayer == 8
kDiffuseLayer == 16
kRefractionLayer == 32
kSSSLayer == 64
kShadingNormalLayer == 128

RECURSIVE BitAnd(_, _)
\* a & b on unsigned integers
BitAnd(a, b) ==
    IF a = 0 \/ b = 0 THEN 0
    ELSE (a % 2) * (b % 2) + 2 * BitAnd(a \div 2, b \div 2)

RECURSIVE Pow2(_)
Pow2(n) == IF n = 0 THEN 1 ELSE 2 * Pow2(n - 1)

\* every value GetLayers() is taken to return
LayerMasks == 0 .. (Pow2(MaskBits) - 1)

(* ------------------- MaterialExplorer::GetUberLayersDesc --------------- *)

\* GetUberLayersDesc with the reflection entry left out of the table
GetUberLayersDesc_NoReflection ==
    << <<kEmissionLayer, <<"uberv2.emission.color">> >>,
       <<kCoatingLayer, <<"uberv2.coating.color", "uberv2.coating.ior">> >>,
       <<kDiffuseLayer, <<"uberv2.diffuse.color">> >>,
       <<kRefractionLayer, <<"uberv2.refraction.color",
                             "uberv2.refraction.roughness",
                             "uberv2.refraction.ior">> >>,
       <<kTransparencyLayer, <<"uberv2.transparency">> >>,
       <<kShadingNormalLayer, <<"uberv2.shading_normal">> >>,
       <<kSSSLayer, <<"uberv2.sss.absorption_color",
                      "uberv2.sss.scatter_color",
                      "uberv2.sss.subsurface_color",
                      "uberv2.sss.absorption_distance",
                      "uberv2.sss.scatter_distance",
                      "uberv2.sss.scatter_direction">> >> >>

\* the LayerDesc table: <<layer flag, input names>>, in the order of the source
GetUberLayersDesc ==
    << <<kEmissionLayer, <<"uberv2.emission.color">> >>,
       <<kCoatingLayer, <<"uberv2.coating.color", "uberv2.coating.ior">> >>,
       <<kReflectionLayer, <<"uberv2.reflection.color",
                             "uberv2.reflection.roughness",
                             "uberv2.reflection.anisotropy",
                             "uberv2.reflection.anisotropy_rotation",
                             "uberv2.reflection.ior",
                             "uberv2.reflection.metalness">> >>,
       <<kDiffuseLayer, <<"uberv2.diffuse.color">> >>,
       <<kRefractionLayer, <<"uberv2.refraction.color",
                             "uberv2.refraction.roughness",
                             "uberv2.refraction.ior">> >>,
       <<kTransparencyLayer, <<"uberv2.transparency">> >>,
       <<kShadingNormalLayer, <<"uberv2.shading_normal">> >>,
       <<kSSSLayer, <<"uberv2.sss.absorption_color",
                      "uberv2.sss.scatter_color",
                      "uberv2.sss.subsurface_color",
                      "uberv2.sss.absorption_distance",
                      "uberv2.sss.scatter_distance",
                      "uberv2.sss.scatter_direction">> >> >>

(* ------------------ MaterialExplorer::MaterialExplorer ----------------- *)

\* std::find_if over layers_desc with the predicate desc.first == flag:
\* the position of the first match, Len + 1 for the end iterator
FindIf(layers_desc, flag) ==
    LET hits == {i \in 1 .. Len(layers_desc) : layers_desc[i][1] = flag}
    IN  IF hits = {} THEN Len(layers_desc) + 1
        ELSE CHOOSE i \in hits : \A j \in hits : i <= j

\* what dereferencing the end iterator of layers_desc may yield
EndDeref(flag) == { <<0, << >> >>, <<flag, <<"?">> >> }

\* find_layer: *(std::find_if(...)); the set of values the dereference can give
find_layer(layers_desc, flag) ==
    LET it == FindIf(layers_desc, flag)
    IN  IF it <= Len(layers_desc) THEN {layers_desc[it]} ELSE EndDeref(flag)

\* the flags in the order of the constructor's if statements, two of them swapped
LayerTests_Swapped ==
    <<kEmissionLayer, kCoatingLayer, kTransparencyLayer, kReflectionLayer,
      kDiffuseLayer, kRefractionLayer, kSSSLayer, kShadingNormalLayer>>

\* the flags in the order of the constructor's if statements
LayerTests ==
    <<kEmissionLayer, kTransparencyLayer, kCoatingLayer, kReflectionLayer,
      kDiffuseLayer, kRefractionLayer, kSSSLayer, kShadingNormalLayer>>

RECURSIVE CollectLayers(_, _)
\* the values m_layers can have after the first k if statements of the constructor
CollectLayers(layers, k) ==
    IF k = 0 THEN { << >> }
    ELSE LET before == CollectLayers(layers, k - 1)
         IN  IF BitAnd(layers, LayerTests[k]) # 0
             THEN {Append(p, d) : p \in before,
                                  d \in find_layer(GetUberLayersDesc, LayerTests[k])}
             ELSE before

\* the find_if results of the lookups the constructor makes, in order:
\* the flag, the iterator position, the number of table entries with that key
Lookups(layers) ==
    LET made == SelectSeq(LayerTests, LAMBDA f : BitAnd(layers, f) # 0)
    IN  [i \in 1 .. Len(made) |->
            [flag |-> made[i],
             it |-> FindIf(GetUberLayersDesc, made[i]),
             matches |-> Cardinality({j \in 1 .. Len(GetUberLayersDesc) :
                                        GetUberLayersDesc[j][1] = made[i]})]]


(* ------------------------------- state --------------------------------- *)

VARIABLES
    instance,          \* number of MaterialExplorer objects constructed so far; 0: none yet
    m_material,        \* the material of the live explorer, given by its GetLayers() bitmask
    m_layers,          \* sequence of LayerDesc <<flag, input names>>
    m_selected_input,  \* std::string, "" when empty
    m_graph,           \* GraphScheme::Ptr: [null, input, pos]
    lookups,           \* the find_if results of the live explorer's constructor
    input_selected,    \* static int of DrawExplorer
    scrolling,         \* static ImVec2 of DrawExplorer, half pixels
    show_grid,         \* static bool of DrawExplorer
    ActiveId,          \* the UI context's active item, "" for none
    ActiveIdIsAlive,   \* the active item was submitted in the current frame
    io,                \* the mouse state of the current frame
    pressed_node,      \* the node under the mouse when the "node" button became active, 0: none
    phase,             \* "idle": between frames, "frame": after NewFrame,
                       \* "drawn": after DrawExplorer, before the frame ends
    frame_log          \* history: what the last DrawExplorer call saw and did

vars == <<instance, m_material, m_layers, m_selected_input, m_graph, lookups,
          input_selected, scrolling, show_grid, ActiveId, ActiveIdIsAlive, io,
          pressed_node, phase, frame_log>>

(* ------------------- the scene: materials and input maps --------------- *)

\* the GetLayers() values of the materials the host opens an explorer on
SceneMaterials ==
    {kEmissionLayer + kDiffuseLayer, kTransparencyLayer + kDiffuseLayer}

\* number of nodes of the expression tree behind GetInputValue(name).input_map_value
InputMapNodes(name) == IF name = "uberv2.diffuse.color" THEN 2 ELSE 1

left_side_width == 150

\* horizontal distance between the nodes GraphScheme::Create lays out
NodeSpacing == 120

\* GraphScheme::Create(UberTree::Create(input_map), int2(left_side_width + 10, 100)):
\* node n of the tree laid out from the given origin
BuildGraph(name) ==
    [null |-> FALSE,
     input |-> name,
     pos |-> [n \in 1 .. InputMapNodes(name) |->
                <<left_side_width + 10 + NodeSpacing * (n - 1), 100>>]]

\* the empty GraphScheme::Ptr
NullGraph == [null |-> TRUE, input |-> "", pos |-> << >>]

\* GraphScheme::UpdateNodePos(id, pos)
UpdateNodePos(graph, id, new_pos) ==
    [graph EXCEPT !.pos = [n \in DOMAIN graph.pos |->
                              IF n = id THEN new_pos ELSE graph.pos[n]]]

(* --------------------------- the UI context ---------------------------- *)

\* ImGui's id 0: no item
NoId == ""
\* the id of ImGui::InvisibleButton("node", ...): the same label, hence the same id,
\* for every node of the loop
NodeButtonId == "node"
\* the id of ImGui::Checkbox("Show grid", ...)
ShowGridId == "Show grid"

\* mouse deltas of a frame in which the mouse moves, in half pixels (1.5 pixels
\* right and up, or left and down)
Deltas == { <<3, -3>>, <<-3, 3>> }

\* ImGui::IsMouseDragging(0): left button down and moved past the drag threshold
IsMouseDragging0 == io.MouseDown0 /\ io.Drag0

\* ImGui::IsMouseDragging(2, 0.0f): with a zero threshold, the middle button is down
IsMouseDragging2 == io.MouseDown2

\* ImGui::IsWindowHovered() inside the "scrolling_region" child window
IsWindowHovered == io.hover[1] \in {"canvas", "node"}

\* ImGui::ButtonBehavior with the default flags (pressed on click-release) for the
\* item `id`, `over` telling whether the mouse is over its rectangle
ButtonBehavior(id, over, active, alive) ==
    LET hovered == over /\ (active = NoId \/ active = id)
        a1 == IF hovered /\ io.MouseClicked0 THEN id ELSE active
    IN  IF a1 = id
        THEN IF io.MouseDown0
             THEN [ActiveId |-> a1, alive |-> TRUE, pressed |-> FALSE,
                   activated |-> hovered /\ io.MouseClicked0]
             ELSE [ActiveId |-> NoId, alive |-> alive, pressed |-> hovered,
                   activated |-> FALSE]
        ELSE [ActiveId |-> a1, alive |-> alive, pressed |-> FALSE,
              activated |-> FALSE]

(* -------------------- MaterialExplorer::DrawExplorer ------------------- *)

RECURSIVE FlattenInputs(_, _)
\* the inputs of layers k .. Len(layers), in the order the two nested loops visit them
FlattenInputs(layers, k) ==
    IF k > Len(layers) THEN << >>
    ELSE layers[k][2] \o FlattenInputs(layers, k + 1)

Rows == FlattenInputs(m_layers, 1)

RECURSIVE LayersList(_, _, _)
\* the Selectable loop from row k on; st carries the context's active item and the
\* locals/statics the loop writes (selected_id is k - 1)
LayersList(rows, k, st) ==
    IF k > Len(rows) THEN st
    ELSE LET bb == ButtonBehavior(rows[k], io.hover = <<"row", k>>,
                                  st.ActiveId, st.alive)
         IN  LayersList(rows, k + 1,
                 [ActiveId |-> bb.ActiveId,
                  alive |-> bb.alive,
                  input_selected |-> IF bb.pressed THEN k - 1 ELSE st.input_selected,
                  input_name |-> IF bb.pressed THEN rows[k] ELSE st.input_name])

\* the state after the "layers_list" child window
AfterLayersList ==
    LayersList(Rows, 1, [ActiveId |-> ActiveId, alive |-> ActiveIdIsAlive,
                         input_selected |-> input_selected, input_name |-> ""])

\* ImGui::Checkbox("Show grid", &show_grid)
ShowGridCheckbox(active, alive) ==
    ButtonBehavior(ShowGridId, io.hover = <<"checkbox", 0>>, active, alive)

\* the rebuild with the test on the name replaced by a test for a missing graph
SelectInput_OnlyFirst(selected, graph, input_name) ==
    IF input_name # "" /\ graph.null
    THEN [m_graph |-> BuildGraph(input_name), m_selected_input |-> input_name]
    ELSE [m_graph |-> graph, m_selected_input |-> selected]

\* the rebuild without the test on the name
SelectInput_Always(selected, graph, input_name) ==
    IF input_name # ""
    THEN [m_graph |-> BuildGraph(input_name), m_selected_input |-> input_name]
    ELSE [m_graph |-> graph, m_selected_input |-> selected]

\* the rebuild without the assignment to m_selected_input
SelectInput_NoName(selected, graph, input_name) ==
    IF input_name # "" /\ selected # input_name
    THEN [m_graph |-> BuildGraph(input_name), m_selected_input |-> selected]
    ELSE [m_graph |-> graph, m_selected_input |-> selected]

\* if (!input_name.empty() && m_selected_input != input_name) { ... }
SelectInput(selected, graph, input_name) ==
    IF input_name # "" /\ selected # input_name
    THEN [m_graph |-> BuildGraph(input_name), m_selected_input |-> input_name]
    ELSE [m_graph |-> graph, m_selected_input |-> selected]

\* (int)f for a float f given in half pixels: truncation toward zero
IntCast(h) == IF h >= 0 THEN h \div 2 ELSE -((-h) \div 2)

\* new_pos computed with a rounding toward minus infinity
DragNewPos_Floor(pos, delta) == <<pos[1] + (delta[1] \div 2), pos[2] + (delta[2] \div 2)>>

\* int2(node.pos.x + (int)delta.x, node.pos.y + (int)delta.y)
DragNewPos(pos, delta) == <<pos[1] + IntCast(delta[1]), pos[2] + IntCast(delta[2])>>

RECURSIVE DisplayNodes(_, _, _)
\* the loop over the copy `nodes` from node n on; st carries the context's active
\* item, the graph being updated and the node a press of this frame landed on
DisplayNodes(nodes, n, st) ==
    IF n > Len(nodes) THEN st
    ELSE LET bb == ButtonBehavior(NodeButtonId, io.hover = <<"node", n>>,
                                  st.ActiveId, st.alive)
             \* ImGui::IsItemActive(): the active id equals the id of the last item
             node_moving_active == bb.ActiveId # NoId /\ bb.ActiveId = NodeButtonId
         IN  DisplayNodes(nodes, n + 1,
                 [ActiveId |-> bb.ActiveId,
                  alive |-> bb.alive,
                  graph |-> IF node_moving_active /\ IsMouseDragging0
                            THEN UpdateNodePos(st.graph, n,
                                               DragNewPos(nodes[n], io.MouseDelta))
                            ELSE st.graph,
                  pressed |-> IF bb.activated THEN n ELSE st.pressed])

\* the scrolling update without the test for an active item
Scrolling_IgnoreActive(offset, active) ==
    IF IsWindowHovered /\ IsMouseDragging2
    THEN <<offset[1] + io.MouseDelta[1], offset[2] + io.MouseDelta[2]>>
    ELSE offset

\* if (IsWindowHovered() && !IsAnyItemActive() && IsMouseDragging(2, 0.0f))
\*     scrolling = scrolling + MouseDelta
Scrolling(offset, active) ==
    IF IsWindowHovered /\ active = NoId /\ IsMouseDragging2
    THEN <<offset[1] + io.MouseDelta[1], offset[2] + io.MouseDelta[2]>>
    ELSE offset

(* ------------------------------ actions -------------------------------- *)

\* the mouse state between two frames: the left button and whether it is past the
\* drag threshold persist, the per-frame values are recomputed by the next NewFrame
NoInput(down0, moved) ==
    [MouseDown0 |-> down0, MouseClicked0 |-> FALSE, MouseDown2 |-> FALSE,
     MouseDelta |-> <<0, 0>>, Drag0 |-> moved, hover |-> <<"none", 0>>]

\* the history record outside a frame
NoLog == [clicked |-> "", was_selected |-> "", moved |-> {}, scrolled |-> FALSE]

Init ==
    /\ instance = 0
    /\ m_material = 0
    /\ m_layers = << >>
    /\ m_selected_input = ""
    /\ m_graph = NullGraph
    /\ lookups = << >>
    /\ input_selected = -1
    /\ scrolling = <<0, 0>>
    /\ show_grid = TRUE
    /\ ActiveId = NoId
    /\ ActiveIdIsAlive = FALSE
    /\ io = NoInput(FALSE, FALSE)
    /\ pressed_node = 0
    /\ phase = "idle"
    /\ frame_log = NoLog

\* MaterialExplorer::Create(material): a new explorer replaces the live one; the
\* statics of DrawExplorer and the UI context are not touched
Create(layers) ==
    /\ phase = "idle"
    /\ instance < MaxInstances
    /\ \E collected \in CollectLayers(layers, Len(LayerTests)) :
           m_layers' = collected
    /\ instance' = instance + 1
    /\ m_material' = layers
    /\ m_selected_input' = ""
    /\ m_graph' = NullGraph
    /\ lookups' = Lookups(layers)
    /\ UNCHANGED <<input_selected, scrolling, show_grid, ActiveId, ActiveIdIsAlive,
                   io, pressed_node, phase, frame_log>>

\* the host opens an explorer on a material of the scene
CreateExplorer == \E layers \in SceneMaterials : Create(layers)

\* the constructor applied to any layer bitmask
CreateAny == \E layers \in LayerMasks : Create(layers)

Abs(x) == IF x >= 0 THEN x ELSE -x

\* what the mouse can be over: nothing, the empty canvas, the checkbox, a row of
\* the layers list, a node of the displayed graph
HoverTargets ==
    { <<"none", 0>>, <<"canvas", 0>>, <<"checkbox", 0>> }
    \cup { <<"row", k>> : k \in 1 .. Len(Rows) }
    \cup { <<"node", n>> : n \in DOMAIN m_graph.pos }

\* the frame's mouse delta keeps every node within MaxDrift of its layout position
\* and the scrolling offset within MaxScroll
WithinBounds(delta) ==
    /\ \A n \in DOMAIN m_graph.pos : \A c \in 1 .. 2 :
           Abs(m_graph.pos[n][c] + IntCast(delta[c])
                 - BuildGraph(m_graph.input).pos[n][c]) <= MaxDrift
    /\ \A c \in 1 .. 2 : Abs(scrolling[c] + delta[c]) <= MaxScroll

\* ImGui::NewFrame(): the mouse state of the frame; an active item that was not
\* submitted during the last frame is cleared
NewFrame ==
    /\ phase = "idle"
    /\ instance > 0
    /\ \E down0, down2, moved \in BOOLEAN, delta \in Deltas, hv \in HoverTargets :
           LET clicked == down0 /\ ~io.MouseDown0
           IN  /\ WithinBounds(delta)
               /\ moved \in (IF ~down0 \/ clicked THEN {FALSE} ELSE {io.Drag0, TRUE})
               /\ io' = [MouseDown0 |-> down0, MouseClicked0 |-> clicked,
                         MouseDown2 |-> down2, MouseDelta |-> delta,
                         Drag0 |-> moved, hover |-> hv]
    /\ ActiveId' = IF ActiveId # NoId /\ ~ActiveIdIsAlive THEN NoId ELSE ActiveId
    /\ pressed_node' = IF ActiveId' = NodeButtonId THEN pressed_node ELSE 0
    /\ ActiveIdIsAlive' = FALSE
    /\ phase' = "frame"
    /\ UNCHANGED <<frame_log, instance, m_material, m_layers, m_selected_input, m_graph,
                   lookups, input_selected, scrolling, show_grid>>

\* MaterialExplorer::DrawExplorer(win_size), one call per frame
DrawExplorer ==
    /\ phase = "frame"
    /\ LET s1 == AfterLayersList
           cb == ShowGridCheckbox(s1.ActiveId, s1.alive)
           sel == SelectInput(m_selected_input, m_graph, s1.input_name)
           s0 == [ActiveId |-> cb.ActiveId, alive |-> cb.alive,
                  graph |-> sel.m_graph, pressed |-> pressed_node]
           \* if (m_graph) { auto nodes = m_graph->GetNodes(); for (...) ... }
           s3 == IF sel.m_graph.null THEN s0
                 ELSE DisplayNodes(sel.m_graph.pos, 1, s0)
       IN  /\ input_selected' = s1.input_selected
           /\ show_grid' = (IF cb.pressed THEN ~show_grid ELSE show_grid)
           /\ m_selected_input' = sel.m_selected_input
           /\ m_graph' = s3.graph
           /\ scrolling' = Scrolling(scrolling, s3.ActiveId)
           /\ ActiveId' = s3.ActiveId
           /\ ActiveIdIsAlive' = s3.alive
           /\ pressed_node' = IF s3.ActiveId = NodeButtonId THEN s3.pressed ELSE 0
           /\ frame_log' = [clicked |-> s1.input_name,
                            was_selected |-> m_selected_input,
                            moved |-> {n \in DOMAIN sel.m_graph.pos :
                                         s3.graph.pos[n] # sel.m_graph.pos[n]},
                            scrolled |-> scrolling' # scrolling]
    /\ phase' = "drawn"
    /\ UNCHANGED <<instance, m_material, m_layers, lookups, io>>

\* ImGui::Render(): the frame ends; its per-frame mouse values are not read again
EndFrame ==
    /\ phase = "drawn"
    /\ io' = NoInput(io.MouseDown0, io.Drag0)
    /\ frame_log' = NoLog
    /\ phase' = "idle"
    /\ UNCHANGED <<instance, m_material, m_layers, m_selected_input, m_graph,
                   lookups, input_selected, scrolling, show_grid, ActiveId,
                   ActiveIdIsAlive, pressed_node>>

Next == CreateExplorer \/ NewFrame \/ DrawExplorer \/ EndFrame

Spec == Init /\ [][Next]_vars

NextCtor == CreateAny

\* the constructor alone, over every layer bitmask
SpecCtor == Init /\ [][NextCtor]_vars

(* ------------------------ properties: constructor ---------------------- *)

\* the order in which the layers are to appear in m_layers
C1_Order ==
    <<kEmissionLayer, kTransparencyLayer, kCoatingLayer, kReflectionLayer,
      kDiffuseLayer, kRefractionLayer, kSSSLayer, kShadingNormalLayer>>

\* the input names GetUberLayersDesc() associates with a flag
C1_InputsOf(flag) ==
    LET i == CHOOSE j \in 1 .. Len(GetUberLayersDesc) : GetUberLayersDesc[j][1] = flag
    IN  GetUberLayersDesc[i][2]

\* C1: after the constructor, m_layers holds exactly one entry for each of the eight
\* layer flags set in the material's bitmask and none for a flag that is not set,
\* each entry with the input names the table gives for its flag, in the order
\* emission, transparency, coating, reflection, diffuse, refraction, SSS,
\* shading-normal.
C1_LayersCollected ==
    instance > 0 =>
        LET IsSet(f) == BitAnd(m_material, f) # 0
            expected == SelectSeq(C1_Order, IsSet)
        IN  /\ Len(m_layers) = Len(expected)
            /\ \A i \in 1 .. Len(expected) :
                   /\ m_layers[i][1] = expected[i]
                   /\ m_layers[i][2] = C1_InputsOf(expected[i])

\* an explorer constructed on a material with transparency, coating and SSS enabled
\* (the table lists them in the order coating, transparency, SSS)
C1_Witness ==
    /\ instance > 0
    /\ BitAnd(m_material, kTransparencyLayer + kCoatingLayer + kSSSLayer)
         = kTransparencyLayer + kCoatingLayer + kSSSLayer
    /\ Len(m_layers) >= 3

\* C9: every find_layer lookup the constructor makes succeeds: the table holds
\* exactly one entry whose key is the flag looked up, so find_if never returns the
\* end iterator, whatever the layer bitmask.
C9_FindLayerSucceeds ==
    \A i \in 1 .. Len(lookups) :
        /\ lookups[i].it <= Len(GetUberLayersDesc)
        /\ lookups[i].matches = 1

\* an explorer whose constructor looked up all eight flags
C9_Witness ==
    /\ instance > 0
    /\ {lookups[i].flag : i \in 1 .. Len(lookups)}
         = {C1_Order[i] : i \in 1 .. Len(C1_Order)}

(* ------------------------- properties: frames --------------------------- *)

\* a step that is one DrawExplorer call
DrawStep == phase = "frame" /\ phase' = "drawn"

\* in the frame about to be drawn the user clicks row k of the layers list: the
\* left button, pressed on that row, is released over it
UserClicks(k) ==
    /\ phase = "frame"
    /\ k \in 1 .. Len(Rows)
    /\ io.hover = <<"row", k>>
    /\ ActiveId = Rows[k]
    /\ ~io.MouseDown0

\* a float given in half pixels, truncated toward zero to an integer
TruncatedToInt(h) ==
    CHOOSE z \in -Abs(h) .. Abs(h) :
        /\ 2 * Abs(z) <= Abs(h)
        /\ Abs(h) < 2 * Abs(z) + 2
        /\ (h >= 0 => z >= 0)
        /\ (h <= 0 => z <= 0)

\* node n of the graph, moved by the frame's mouse delta
MovedByDelta(n) ==
    <<m_graph.pos[n][1] + TruncatedToInt(io.MouseDelta[1]),
      m_graph.pos[n][2] + TruncatedToInt(io.MouseDelta[2])>>

\* C2: in a frame in which the user clicks a listed input whose name differs from
\* m_selected_input, at the end of the frame m_graph is the graph built from that
\* input's input map and m_selected_input is the clicked name.
C2_RebuildOnSelectionChange ==
    [][\A k \in 1 .. Len(Rows) :
          (DrawStep /\ UserClicks(k) /\ Rows[k] # m_selected_input)
              => (m_graph' = BuildGraph(Rows[k]) /\ m_selected_input' = Rows[k])]_vars

\* after a frame in which the selection went from one input to another one, the
\* earlier graph having been dragged away from its layout
C2_Witness ==
    /\ phase = "drawn"
    /\ frame_log.clicked # ""
    /\ frame_log.was_selected # ""
    /\ frame_log.clicked # frame_log.was_selected
    /\ m_selected_input = frame_log.clicked

\* C3: in a frame in which a node's button is the active item and the left button
\* is dragging, the stored position of that node becomes its position at the start
\* of the frame plus the mouse delta truncated toward zero in each coordinate, and
\* the explorer's graph keeps what it stores until the next DrawExplorer call.
C3_DragRelayed ==
    /\ [][(/\ DrawStep
           /\ ~m_graph.null
           /\ ActiveId = NodeButtonId
           /\ pressed_node \in DOMAIN m_graph.pos
           /\ io.MouseDown0 /\ io.Drag0)
              => (/\ ~m_graph'.null
                  /\ m_graph'.pos[pressed_node] = MovedByDelta(pressed_node))]_vars
    /\ [][(~DrawStep /\ instance' = instance) => m_graph' = m_graph]_vars

\* after a frame that dragged the pressed node down and to the left
C3_Witness ==
    /\ phase = "drawn"
    /\ pressed_node \in frame_log.moved
    /\ io.MouseDelta = <<-3, 3>>
    /\ m_graph.pos[pressed_node] # BuildGraph(m_graph.input).pos[pressed_node]

\* C4: in a frame in which no listed input is clicked, or the clicked input is the
\* selected one, m_selected_input is unchanged and m_graph is not replaced: it shows
\* the same input and every node is where it was, or where this frame's drag put it.
C4_NoRebuildWithoutChange ==
    [][(/\ DrawStep
        /\ \A k \in 1 .. Len(Rows) : UserClicks(k) => Rows[k] = m_selected_input)
           => (/\ m_selected_input' = m_selected_input
               /\ m_graph'.null = m_graph.null
               /\ m_graph'.input = m_graph.input
               /\ DOMAIN m_graph'.pos = DOMAIN m_graph.pos
               /\ \A n \in DOMAIN m_graph.pos :
                      \/ m_graph'.pos[n] = m_graph.pos[n]
                      \/ /\ io.MouseDown0 /\ io.Drag0
                         /\ m_graph'.pos[n] = MovedByDelta(n))]_vars

\* after a frame in which the selected input was clicked again while its graph had
\* been dragged away from its layout
C4_Witness ==
    /\ phase = "drawn"
    /\ frame_log.clicked # ""
    /\ frame_log.clicked = frame_log.was_selected
    /\ ~m_graph.null
    /\ m_graph # BuildGraph(m_selected_input)

\* C5: in a frame in which the user drags one node of a graph with several nodes,
\* only the pressed node's position changes and every other node stays where it was.
C5_OnlyPressedNodeMoves ==
    [][(/\ DrawStep
        /\ ~m_graph.null
        /\ pressed_node \in DOMAIN m_graph.pos
        /\ m_graph'.input = m_graph.input)
           => \A n \in DOMAIN m_graph.pos \ {pressed_node} :
                  m_graph'.pos[n] = m_graph.pos[n]]_vars

\* C6: in a frame the scrolling offset grows by exactly the mouse delta when the
\* canvas window is hovered, no item is active and the middle button is dragging,
\* and is unchanged in every other frame; no frame changes both the scrolling
\* offset and a node position.
C6_ScrollingOnly ==
    [][DrawStep =>
          /\ scrolling' =
                IF /\ io.hover[1] \in {"canvas", "node"}
                   /\ ActiveId' = NoId
                   /\ io.MouseDown2
                THEN <<scrolling[1] + io.MouseDelta[1], scrolling[2] + io.MouseDelta[2]>>
                ELSE scrolling
          /\ ~(/\ scrolling' # scrolling
               /\ m_graph'.input = m_graph.input
               /\ m_graph'.pos # m_graph.pos)]_vars

\* after a frame that scrolled the canvas while a dragged graph was displayed
C6_Witness ==
    /\ phase = "drawn"
    /\ frame_log.scrolled
    /\ scrolling # <<0, 0>>
    /\ ~m_graph.null
    /\ m_graph # BuildGraph(m_selected_input)

\* C7: the highlighted row input_selected is -1 or the index, in the explorer's
\* flattened list of layer inputs, of the input named m_selected_input.
C7_HighlightMatchesSelection ==
    instance > 0 =>
        \/ input_selected = -1
        \/ /\ input_selected + 1 \in 1 .. Len(Rows)
           /\ Rows[input_selected + 1] = m_selected_input

\* C8: m_graph is present exactly when m_selected_input is non-empty; both are
\* absent until a frame in which an input is clicked, and no frame of an explorer
\* that has a graph makes the graph absent or the selected input empty.
C8_GraphIffSelected ==
    /\ [](m_graph.null <=> m_selected_input = "")
    /\ [][(m_graph.null /\ ~m_graph'.null)
             => (DrawStep /\ \E k \in 1 .. Len(Rows) : UserClicks(k))]_vars
    /\ [][(DrawStep /\ ~m_graph.null)
             => (~m_graph'.null /\ m_selected_input' # "")]_vars

\* an explorer that kept its graph and selection over a later frame without a click
C8_Witness ==
    /\ phase = "drawn"
    /\ frame_log.clicked = ""
    /\ frame_log.was_selected # ""
    /\ ~m_graph.null
    /\ m_selected_input = frame_log.was_selected

=============================================================================
